---- MODULE Spec2Model ----
(***************************************************************************)
(* ETF portfolio dashboard (jonsploder/InvestmentSummary).                 *)
(*                                                                         *)
(* The model covers the data path of the front end:                        *)
(*   backend/server.js       the proxy's close-price conversion            *)
(*   src/App.tsx             StockCharts: portfolio state, the per-ETF     *)
(*                           queries, chartData, normalizeData             *)
(*   PortfolioManager.tsx    the ledger: load, persist effect,             *)
(*                           handleSharesChange, valuations                *)
(*                                                                         *)
(* JavaScript numbers are modelled as exact rationals plus NaN and the two *)
(* infinities; rounding of finite results is not modelled.  x / x is 1 and *)
(* 1 * 100 is 100 in IEEE-754 as well, so "exactly 100" means the same in  *)
(* both.  Date labels of chart points are left out: no operation modelled  *)
(* here reads them.                                                        *)
(***************************************************************************)
EXTENDS Integers, Sequences, FiniteSets, TLC

\* ------------------------------------------------------------------------
\* Bounds of the model
\* ------------------------------------------------------------------------

\* Longest series a fetch returns in the application runs.
MaxItems == 1
\* Longest series the data source returns in the data runs.
MaxLen == 2
\* Largest share count of a portfolio in the data runs.
MaxShares == 2
\* Largest share count in a portfolio found in storage at start-up.
MaxStored == 1
\* Latest clock reading (lastUpdated stamps are 0..MaxClock).
MaxClock == 1

\* ------------------------------------------------------------------------
\* JavaScript values: numbers, null
\* ------------------------------------------------------------------------

Abs(i) == IF i < 0 THEN -i ELSE i

Sign(i) == IF i < 0 THEN -1 ELSE IF i = 0 THEN 0 ELSE 1

RECURSIVE Gcd(_, _)
Gcd(a, b) == IF b = 0 THEN a ELSE Gcd(b, a % b)

\* A finite number n/d in lowest terms, d > 0.
Rat(n, d) ==
  LET g == Gcd(Abs(n), Abs(d))
      s == IF d < 0 THEN -1 ELSE 1
  IN [k |-> "fin", n |-> (s * n) \div g, d |-> (s * d) \div g]

Num(i) == [k |-> "fin", n |-> i, d |-> 1]

NaN == [k |-> "NaN", n |-> 0, d |-> 1]

\* Infinity (n = 1) and -Infinity (n = -1).
Inf(s) == [k |-> "Inf", n |-> s, d |-> 1]

Null == [k |-> "null", n |-> 0, d |-> 1]

IsFinite(x) == x.k = "fin"

\* Number(v) for v a number or null: Number(null) is 0.
Number(v) == IF v.k = "null" THEN Num(0) ELSE v

\* JavaScript truthiness of a number or null: 0, NaN and null are falsy.
Truthy(v) ==
  /\ v.k # "null"
  /\ v.k # "NaN"
  /\ ~(v.k = "fin" /\ v.n = 0)

\* a / b
Div(a, b) ==
  IF a.k = "NaN" \/ b.k = "NaN" THEN NaN
  ELSE IF a.k = "Inf"
    THEN IF b.k = "Inf" THEN NaN
         ELSE Inf(a.n * (IF b.n < 0 THEN -1 ELSE 1))
  ELSE IF b.k = "Inf" THEN Num(0)
  ELSE IF b.n = 0
    THEN IF a.n = 0 THEN NaN ELSE Inf(Sign(a.n))
  ELSE Rat(a.n * b.d, a.d * b.n)

\* a * b
Mul(a, b) ==
  IF a.k = "NaN" \/ b.k = "NaN" THEN NaN
  ELSE IF a.k = "Inf" \/ b.k = "Inf"
    THEN IF a.n = 0 \/ b.n = 0 THEN NaN ELSE Inf(Sign(a.n) * Sign(b.n))
  ELSE Rat(a.n * b.n, a.d * b.d)

\* a + b
Add(a, b) ==
  IF a.k = "NaN" \/ b.k = "NaN" THEN NaN
  ELSE IF a.k = "Inf"
    THEN IF b.k = "Inf" /\ b.n # a.n THEN NaN ELSE a
  ELSE IF b.k = "Inf" THEN b
  ELSE Rat(a.n * b.d + b.n * a.d, a.d * b.d)

\* a > b (false when either is NaN)
Gt(a, b) ==
  IF a.k = "NaN" \/ b.k = "NaN" THEN FALSE
  ELSE IF a.k = "Inf" THEN a.n = 1 /\ ~(b.k = "Inf" /\ b.n = 1)
  ELSE IF b.k = "Inf" THEN b.n = -1
  ELSE a.n * b.d > b.n * a.d

\* Math.max(a, b): NaN when either is NaN
Math_max(a, b) ==
  IF a.k = "NaN" \/ b.k = "NaN" THEN NaN
  ELSE IF Gt(b, a) THEN b ELSE a

\* ------------------------------------------------------------------------
\* Configuration and symbols
\* ------------------------------------------------------------------------

\* The configured instruments.  The program lists eight; the model keeps the
\* first two, which is enough for every operation to see "this instrument"
\* and "another instrument".
ETF_LIST == <<"VAS.AX", "VGS.AX">>

\* symbol.replace(".AX", "")
StripAX(symbol) ==
  CASE symbol = "VAS.AX" -> "VAS"
    [] symbol = "VGS.AX" -> "VGS"
    [] symbol = "CASH.AX" -> "CASH"
    [] OTHER -> symbol

\* holding.symbol + ".AX"
PlusAX(symbol) ==
  CASE symbol = "VAS" -> "VAS.AX"
    [] symbol = "VGS" -> "VGS.AX"
    [] symbol = "CASH" -> "CASH.AX"
    [] symbol = "VAS.AX" -> "VAS.AX.AX"
    [] symbol = "VGS.AX" -> "VGS.AX.AX"
    [] OTHER -> "XYZ.AX"

\* ------------------------------------------------------------------------
\* Portfolio
\* ------------------------------------------------------------------------

Holding(symbol, shares) == [symbol |-> symbol, shares |-> shares]

\* The portfolio built when nothing is stored: one zero-share holding per
\* configured instrument, then CASH.
DefaultPortfolio(etfList, clock) ==
  [holdings |->
     [i \in 1..Len(etfList) |-> Holding(StripAX(etfList[i]), Num(0))]
       \o <<Holding("CASH", Num(0))>>,
   lastUpdated |-> clock]

\* ------------------------------------------------------------------------
\* normalizeData
\* ------------------------------------------------------------------------

\* point[key] !== null && point[key] !== undefined
Present(point, key) == key \in DOMAIN point /\ point[key] # Null

NonCash(holdings) == SelectSeq(holdings, LAMBDA h : h.symbol # "CASH")

RECURSIVE SumShares(_, _)
SumShares(holdings, sum) ==
  IF holdings = <<>> THEN sum
  ELSE SumShares(Tail(holdings), Add(sum, Head(holdings).shares))

\* Mutant: the CASH balance is counted in the denominator.
totalInvestmentWithCash(portfolio) == SumShares(portfolio.holdings, Num(0))

totalInvestment(portfolio) == SumShares(NonCash(portfolio.holdings), Num(0))

\* The first valid value of each key of data[0].
baseValues(data) ==
  LET valid(key) == {i \in 1..Len(data) : Present(data[i], key)}
      first(key) == CHOOSE i \in valid(key) : \A j \in valid(key) : i <= j
  IN [key \in {k \in DOMAIN data[1] : valid(k) # {}} |->
        Number(data[first(key)][key])]

\* (Number(point[key]) / baseValues[key]) * 100; a key without a base value
\* divides by undefined, which is NaN.
normalizedValue(value, bases, key) ==
  IF key \in DOMAIN bases
    THEN Mul(Div(Number(value), bases[key]), Num(100))
    ELSE NaN

\* Mutant: a null price is normalized like a number.
individualValuesOfNull(point, bases) ==
  [key \in DOMAIN point |-> normalizedValue(point[key], bases, key)]

individualValues(point, bases) ==
  [key \in {k \in DOMAIN point : Present(point, k)} |->
     normalizedValue(point[key], bases, key)]

RECURSIVE WeightedSum(_, _, _, _)
WeightedSum(holdings, normalizedPoint, total, sum) ==
  IF holdings = <<>> THEN sum
  ELSE LET holding == Head(holdings)
           symbol == holding.symbol
           next == IF symbol \in DOMAIN normalizedPoint
                     THEN LET weight == Div(holding.shares, total)
                          IN Add(sum, Mul(normalizedPoint[symbol], weight))
                     ELSE sum
       IN WeightedSum(Tail(holdings), normalizedPoint, total, next)

weightedTotal(normalizedPoint, portfolio, total) ==
  WeightedSum(NonCash(portfolio.holdings), normalizedPoint, total, Num(0))

WithTotal(normalizedPoint, total) ==
  [key \in DOMAIN normalizedPoint \cup {"TOTAL"} |->
     IF key = "TOTAL" THEN total ELSE normalizedPoint[key]]

Returned(value) == [threw |-> FALSE, value |-> value]

Thrown == [threw |-> TRUE, value |-> <<>>]

\* One normalized point: the individual values, then TOTAL.
NormalizedPoint(normalizedPoint, portfolio, total) ==
  WithTotal(normalizedPoint, weightedTotal(normalizedPoint, portfolio, total))

\* data.map((point) => ...) of normalizeData
NormalizedPoints(data, portfolio, total, bases) ==
  [i \in 1..Len(data) |->
     NormalizedPoint(individualValues(data[i], bases), portfolio, total)]

\* normalizeData(data, portfolio).  Object.keys(data[0]) throws a TypeError
\* when data is empty.
normalizeData(data, portfolio) ==
  IF data = <<>> THEN Thrown
  ELSE Returned(NormalizedPoints(data, portfolio, totalInvestment(portfolio),
                                 baseValues(data)))

\* ------------------------------------------------------------------------
\* The proxy and the queries
\* ------------------------------------------------------------------------

\* closePrices[index] || null
ServerClose(close) == IF Truthy(close) THEN close ELSE Null

\* The proxy's response for the closes the provider returned.
ServerResponse(closePrices) ==
  [i \in 1..Len(closePrices) |-> ServerClose(closePrices[i])]

Loading == [status |-> "loading", data |-> <<>>]

Failed == [status |-> "error", data |-> <<>>]

Success(data) == [status |-> "success", data |-> data]

\* Mutant: loading only while every query is loading.
isLoadingEvery(qs) == \A i \in DOMAIN qs : qs[i].status = "loading"

\* queries.some((query) => query.isLoading)
isLoading(qs) == \E i \in DOMAIN qs : qs[i].status = "loading"

\* queries.some((query) => query.isError)
isError(qs) == \E i \in DOMAIN qs : qs[i].status = "error"

\* One point per item of queries[0].data; a query contributes its close at
\* an index where it has an item.
chartData(qs) ==
  [index \in 1..Len(qs[1].data) |->
     [symbol \in {StripAX(ETF_LIST[q]) :
                    q \in {r \in DOMAIN qs : index <= Len(qs[r].data)}} |->
        LET q == CHOOSE r \in DOMAIN qs : StripAX(ETF_LIST[r]) = symbol
        IN qs[q].data[index]]]

\* The last close of every query that returned at least one item.
currentPrices(qs) ==
  [symbol \in {ETF_LIST[q] : q \in {r \in DOMAIN qs : Len(qs[r].data) > 0}} |->
     LET q == CHOOSE r \in DOMAIN qs : ETF_LIST[r] = symbol
     IN qs[q].data[Len(qs[q].data)]]

NoPrices == [symbol \in {} |-> Null]

Screen(name) ==
  [screen |-> name, chartData |-> <<>>, normalizedChartData |-> <<>>,
   currentPrices |-> NoPrices]

\* What StockCharts renders for the queries and its portfolio.  A render
\* that throws takes the whole tree down.
ChartsScreen(qs, data, normalized) ==
  IF normalized.threw THEN Screen("crashed")
  ELSE [screen |-> "charts", chartData |-> data,
        normalizedChartData |-> normalized.value,
        currentPrices |-> currentPrices(qs)]

ProcessData(qs, data, portfolio) ==
  ChartsScreen(qs, data, normalizeData(data, portfolio))

StockChartsRender(qs, portfolio) ==
  IF isLoading(qs) THEN Screen("loading")
  ELSE IF isError(qs) THEN Screen("error")
  ELSE ProcessData(qs, chartData(qs), portfolio)

\* ------------------------------------------------------------------------
\* The ledger store
\* ------------------------------------------------------------------------

NoPortfolio == [holdings |-> <<>>, lastUpdated |-> 0]

\* localStorage.getItem("portfolio"): no item, the empty string, a string
\* that is not JSON, or the JSON text of a value.
NoItem == [k |-> "none", v |-> NoPortfolio]

EmptyText == [k |-> "empty", v |-> NoPortfolio]

BadText == [k |-> "bad", v |-> NoPortfolio]

\* JSON.stringify(portfolio): a number that is not finite is written as null.
JSON_stringify(portfolio) ==
  [k |-> "json",
   v |-> [holdings |->
            [i \in DOMAIN portfolio.holdings |->
               LET h == portfolio.holdings[i]
               IN Holding(h.symbol,
                          IF IsFinite(h.shares) THEN h.shares ELSE Null)],
          lastUpdated |-> portfolio.lastUpdated]]

Loaded(portfolio) == [threw |-> FALSE, value |-> portfolio]

LoadThrown == [threw |-> TRUE, value |-> NoPortfolio]

\* JSON.parse(text): a SyntaxError for text that is not JSON.
JSON_parse(text) == IF text.k = "json" THEN Loaded(text.v) ELSE LoadThrown

\* The useState initializer of StockCharts and of PortfolioManager:
\*   saved ? JSON.parse(saved) : default
LoadPortfolio(saved, etfList, clock) ==
  IF saved.k \in {"json", "bad"}
    THEN JSON_parse(saved)
    ELSE Loaded(DefaultPortfolio(etfList, clock))

\* Mutant: the share count is stored as given.
handleSharesChangeUnclamped(prev, symbol, shares, clock) ==
  [holdings |->
     [i \in DOMAIN prev.holdings |->
        IF prev.holdings[i].symbol = symbol
          THEN Holding(symbol, shares)
          ELSE prev.holdings[i]],
   lastUpdated |-> clock]

\* The state updater of handleSharesChange(symbol, shares).
handleSharesChange(prev, symbol, shares, clock) ==
  [holdings |->
     [i \in DOMAIN prev.holdings |->
        LET holding == prev.holdings[i]
        IN IF holding.symbol = symbol
             THEN Holding(holding.symbol, Math_max(Num(0), shares))
             ELSE holding],
   lastUpdated |-> clock]

\* parseInt(e.target.value) for the texts the model types.
parseInt(text) ==
  CASE text = "-5" -> Num(-5)
    [] text = "1" -> Num(1)
    [] text = "2" -> Num(2)
    [] OTHER -> NaN

\* x || 0
OrZero(x) == IF Truthy(x) THEN x ELSE Num(0)

\* ------------------------------------------------------------------------
\* Valuations (PortfolioManager render)
\* ------------------------------------------------------------------------

\* currentPrices[holding.symbol + ".AX"] || 0
PriceOrZero(prices, symbol) ==
  IF PlusAX(symbol) \in DOMAIN prices THEN OrZero(prices[PlusAX(symbol)])
  ELSE Num(0)

\* Mutant: CASH is priced through currentPrices like an instrument.
PieValueCashPriced(holding, prices) ==
  Mul(holding.shares, PriceOrZero(prices, holding.symbol))

PieValue(holding, prices) ==
  IF holding.symbol = "CASH" THEN holding.shares
  ELSE Mul(holding.shares, PriceOrZero(prices, holding.symbol))

pieData(portfolio, prices) ==
  SelectSeq([i \in DOMAIN portfolio.holdings |->
               [name |-> portfolio.holdings[i].symbol,
                value |-> PieValue(portfolio.holdings[i], prices)]],
            LAMBDA item : Gt(item.value, Num(0)))

RECURSIVE SumValues(_, _)
SumValues(items, sum) ==
  IF items = <<>> THEN sum
  ELSE SumValues(Tail(items), Add(sum, Head(items).value))

totalValue(portfolio, prices) == SumValues(pieData(portfolio, prices), Num(0))

RowPrice(holding, prices) ==
  IF holding.symbol = "CASH" THEN Num(1)
  ELSE PriceOrZero(prices, holding.symbol)

\* One row of the holdings table; weight is the percentage shown.
RowOf(holding, currentPrice, value, total) ==
  [symbol |-> holding.symbol, shares |-> holding.shares,
   currentPrice |-> currentPrice, value |-> value,
   weight |-> IF Truthy(total) THEN Mul(Div(value, total), Num(100))
              ELSE Num(0)]

TableRow(holding, prices, total) ==
  RowOf(holding, RowPrice(holding, prices),
        Mul(holding.shares, RowPrice(holding, prices)), total)

NoTable == [rows |-> <<>>, totalValue |-> Num(0)]

TableOf(portfolio, prices, total) ==
  [rows |-> [i \in DOMAIN portfolio.holdings |->
               TableRow(portfolio.holdings[i], prices, total)],
   totalValue |-> total]

PortfolioManagerRender(portfolio, prices) ==
  TableOf(portfolio, prices, totalValue(portfolio, prices))

\* ------------------------------------------------------------------------
\* State
\* ------------------------------------------------------------------------

VARIABLES
  storage,   \* localStorage item "portfolio"
  now,       \* the clock new Date() reads
  app,       \* StockCharts: status and its portfolio state
  queries,   \* one query per configured instrument
  view,      \* what StockCharts rendered last
  pm,        \* PortfolioManager: mounted, portfolio state, pending effect
  table,     \* what PortfolioManager rendered last
  lastCall   \* arguments of the latest handleSharesChange call

vars == <<storage, now, app, queries, view, pm, table, lastCall>>

Unmounted ==
  [mounted |-> FALSE, portfolio |-> NoPortfolio, effectPending |-> FALSE]

NoCall == [called |-> FALSE, symbol |-> "", shares |-> Num(0)]

Call(symbol, shares) == [called |-> TRUE, symbol |-> symbol, shares |-> shares]

\* Series of closes of length 0..maxLen.
SeriesOf(closes, maxLen) ==
  UNION {[1..n -> closes] : n \in 0..maxLen}

\* Portfolios an earlier session can have stored: the default shape with
\* whole, non-negative share counts (the cash balance is none or the most).
StoredPortfolios(maxShares) ==
  {[holdings |-> <<Holding("VAS", Num(a)), Holding("VGS", Num(b)),
                   Holding("CASH", Num(c))>>,
    lastUpdated |-> 0] : a \in 0..maxShares, b \in 0..maxShares,
                         c \in {0, maxShares}}

\* Closes the provider returns to the proxy.
ProviderCloses == {Null, Num(0), Num(10)}

\* Texts typed into a Units field.
InputTexts == {"", "-5", "1"}

InitWith(stored) ==
  /\ storage \in stored
  /\ now = 0
  /\ app = [status |-> "unmounted", portfolio |-> NoPortfolio]
  /\ queries = [i \in DOMAIN ETF_LIST |-> Loading]
  /\ view = Screen("unmounted")
  /\ pm = Unmounted
  /\ table = NoTable
  /\ lastCall = NoCall

Init ==
  InitWith({NoItem, EmptyText, BadText}
             \cup {JSON_stringify(p) : p \in StoredPortfolios(MaxStored)})

\* ------------------------------------------------------------------------
\* Actions
\* ------------------------------------------------------------------------

\* PortfolioManager is rendered by the charts screen only.  It keeps its
\* state while it stays mounted and loads it from storage when it mounts;
\* the persist effect runs after the mounting render too.
PortfolioManagerAfter(v, prev, saved, clock) ==
  IF v.screen # "charts" THEN Unmounted
  ELSE IF prev.mounted THEN prev
  ELSE LET loaded == LoadPortfolio(saved, ETF_LIST, clock)
       IN [mounted |-> ~loaded.threw, portfolio |-> loaded.value,
           effectPending |-> ~loaded.threw]

\* The tree after StockCharts rendered v and PortfolioManager became p; a
\* render or an initializer that threw leaves nothing mounted.
Committed(qs, v, p, ok) ==
  /\ queries' = qs
  /\ view' = IF ok THEN v ELSE Screen("crashed")
  /\ app' = [app EXCEPT !.status = IF ok THEN "mounted" ELSE "crashed"]
  /\ pm' = IF ok THEN p ELSE Unmounted
  /\ table' = IF ok /\ p.mounted
                THEN PortfolioManagerRender(p.portfolio, v.currentPrices)
                ELSE NoTable
  /\ lastCall' = IF ok /\ p.mounted /\ pm.mounted THEN lastCall ELSE NoCall

Rendered(qs, v, p) ==
  Committed(qs, v, p, v.screen # "crashed" /\ (v.screen = "charts" => p.mounted))

\* Re-render after the queries changed to qs.
Commit(qs, v) == Rendered(qs, v, PortfolioManagerAfter(v, pm, storage, now))

\* No event is handled and nothing renders while a committed render's
\* effect has not run yet.
Idle == app.status = "mounted" /\ ~pm.effectPending

\* StockCharts mounts: its portfolio state is initialised from storage and
\* every query starts loading.
Mount ==
  /\ app.status = "unmounted"
  /\ LET loaded == LoadPortfolio(storage, ETF_LIST, now)
     IN /\ app' = [status |-> IF loaded.threw THEN "crashed" ELSE "mounted",
                   portfolio |-> loaded.value]
        /\ view' = Screen(IF loaded.threw THEN "crashed" ELSE "loading")
  /\ UNCHANGED <<storage, now, queries, pm, table, lastCall>>

\* The fetch of query i resolves with data.
QuerySuccess(i, data) ==
  /\ Idle
  /\ queries[i].status = "loading"
  /\ Commit([queries EXCEPT ![i] = Success(data)],
            StockChartsRender([queries EXCEPT ![i] = Success(data)],
                              app.portfolio))
  /\ UNCHANGED <<storage, now>>

\* The fetch of query i fails.
QueryError(i) ==
  /\ Idle
  /\ queries[i].status = "loading"
  /\ Commit([queries EXCEPT ![i] = Failed],
            StockChartsRender([queries EXCEPT ![i] = Failed], app.portfolio))
  /\ UNCHANGED <<storage, now>>

\* A range button of the charts screen: every query starts over.
SetTimeRange ==
  /\ Idle
  /\ view.screen = "charts"
  /\ Commit([i \in DOMAIN ETF_LIST |-> Loading],
            StockChartsRender([i \in DOMAIN ETF_LIST |-> Loading],
                              app.portfolio))
  /\ UNCHANGED <<storage, now>>

\* Mutant: the persist effect does not depend on the portfolio, so it runs
\* after the mounting render only.
UpdateCallNoEffect(symbol, shares, t) ==
  /\ Idle
  /\ pm.mounted
  /\ LET next == handleSharesChange(pm.portfolio, symbol, shares, t)
     IN /\ pm' = [pm EXCEPT !.portfolio = next]
        /\ table' = PortfolioManagerRender(next, view.currentPrices)
  /\ now' = t
  /\ lastCall' = Call(symbol, shares)
  /\ UNCHANGED <<storage, app, queries, view>>

\* handleSharesChange(symbol, shares) at clock reading t: the state change
\* re-renders PortfolioManager and schedules the persist effect.
UpdateCall(symbol, shares, t) ==
  /\ Idle
  /\ pm.mounted
  /\ LET next == handleSharesChange(pm.portfolio, symbol, shares, t)
     IN /\ pm' = [pm EXCEPT !.portfolio = next, !.effectPending = TRUE]
        /\ table' = PortfolioManagerRender(next, view.currentPrices)
  /\ now' = t
  /\ lastCall' = Call(symbol, shares)
  /\ UNCHANGED <<storage, app, queries, view>>

\* The Units field of row i changes to text.
OnSharesInput(i, text, t) ==
  /\ pm.mounted
  /\ i \in DOMAIN pm.portfolio.holdings
  /\ UpdateCall(pm.portfolio.holdings[i].symbol, OrZero(parseInt(text)), t)

\* useEffect: localStorage.setItem("portfolio", JSON.stringify(portfolio))
PersistEffect ==
  /\ pm.mounted
  /\ pm.effectPending
  /\ storage' = JSON_stringify(pm.portfolio)
  /\ pm' = [pm EXCEPT !.effectPending = FALSE]
  /\ lastCall' = NoCall
  /\ UNCHANGED <<now, app, queries, view, table>>

Next ==
  \/ Mount
  \/ \E i \in DOMAIN ETF_LIST, closes \in SeriesOf(ProviderCloses, MaxItems) :
       QuerySuccess(i, ServerResponse(closes))
  \/ \E i \in DOMAIN ETF_LIST : QueryError(i)
  \/ SetTimeRange
  \/ \E i \in 1..(Len(ETF_LIST) + 1), text \in InputTexts, t \in 0..MaxClock :
       t >= now /\ OnSharesInput(i, text, t)
  \/ PersistEffect

Spec == Init /\ [][Next]_vars

\* React runs the effects of a committed render before it handles the next
\* event or renders again, so a pending persist effect does run.
SpecLive == Spec /\ WF_vars(PersistEffect)

\* ------------------------------------------------------------------------
\* Data runs: the data source is a black box that may return any
\* closes, zero included, and series of any length up to MaxLen.
\* ------------------------------------------------------------------------

\* Closes the data source returns for instrument i.
SourceCloses(i) ==
  {Null, Num(0)} \cup (IF i = 1 THEN {Num(10), Num(20)}
                                ELSE {Num(25), Num(50)})

InitData ==
  InitWith({NoItem}
             \cup {JSON_stringify(p) : p \in StoredPortfolios(MaxShares)})

NextData ==
  \/ Mount
  \/ \E i \in DOMAIN ETF_LIST :
       \E data \in SeriesOf(SourceCloses(i), MaxLen) : QuerySuccess(i, data)
  \/ PersistEffect

SpecData == InitData /\ [][NextData]_vars

\* ------------------------------------------------------------------------
\* Ledger runs: the application, and handleSharesChange called with any
\* instrument name and any share count.
\* ------------------------------------------------------------------------

LedgerSymbols == {"VAS", "VGS", "CASH", "XYZ"}

LedgerShares == {Num(-5), Num(0), Num(1)}

NextLedger ==
  \/ Next
  \/ \E symbol \in LedgerSymbols, shares \in LedgerShares, t \in 0..MaxClock :
       t >= now /\ UpdateCall(symbol, shares, t)

SpecLedger == Init /\ [][NextLedger]_vars

\* ------------------------------------------------------------------------
\* Properties of normalizeData (data runs, SpecData)
\* ------------------------------------------------------------------------

\* The instrument columns of the raw chart data.
Columns(data) == UNION {DOMAIN data[i] : i \in DOMAIN data}

\* The indexes at which a column has a price.
PresentAt(data, key) ==
  {i \in DOMAIN data : key \in DOMAIN data[i] /\ data[i][key] # Null}

FirstPresent(data, key) ==
  CHOOSE i \in PresentAt(data, key) : \A j \in PresentAt(data, key) : i <= j

\* The sum of the values of a function with a finite domain.
RECURSIVE SumFn(_)
SumFn(f) ==
  IF DOMAIN f = {} THEN Num(0)
  ELSE LET i == CHOOSE j \in DOMAIN f : TRUE
       IN Add(f[i], SumFn([j \in DOMAIN f \ {i} |-> f[j]]))

\* The holdings other than CASH, by position.
Invested(portfolio) ==
  {i \in DOMAIN portfolio.holdings : portfolio.holdings[i].symbol # "CASH"}

\* The denominator as the specification defines it.
Denominator(portfolio) ==
  SumFn([i \in Invested(portfolio) |-> portfolio.holdings[i].shares])

SharesOf(portfolio) ==
  [i \in DOMAIN portfolio.holdings |-> portfolio.holdings[i].shares]

TotalsOf(points) == [i \in DOMAIN points |-> points[i]["TOTAL"]]

\* C1: with no non-cash shares the weighted total is 0 at every index, never
\* absent and never not-a-number.
C1_ZeroInvestedTotalIsZero ==
  (view.screen = "charts" /\ Denominator(app.portfolio) = Num(0)) =>
    \A i \in DOMAIN view.normalizedChartData :
      /\ "TOTAL" \in DOMAIN view.normalizedChartData[i]
      /\ view.normalizedChartData[i]["TOTAL"] = Num(0)

\* C2: the normalized value of every column at its first index with a price
\* is exactly 100.
C2_FirstPresentIs100 ==
  view.screen = "charts" =>
    \A key \in Columns(view.chartData) :
      PresentAt(view.chartData, key) # {} =>
        LET first == FirstPresent(view.chartData, key)
        IN /\ key \in DOMAIN view.normalizedChartData[first]
           /\ view.normalizedChartData[first][key] = Num(100)

\* C2, the part the code keeps: the same for every column whose first price
\* is not zero.
C2_NonZeroBaseIs100 ==
  view.screen = "charts" =>
    \A key \in Columns(view.chartData) :
      (/\ PresentAt(view.chartData, key) # {}
       /\ view.chartData[FirstPresent(view.chartData, key)][key] # Num(0)) =>
        LET first == FirstPresent(view.chartData, key)
        IN /\ key \in DOMAIN view.normalizedChartData[first]
           /\ view.normalizedChartData[first][key] = Num(100)

\* The weighted total of one normalized point as the specification defines
\* it: over the non-CASH holdings with a value in the point.
SpecTotal(point, portfolio, denominator) ==
  SumFn([i \in {j \in Invested(portfolio) :
                  portfolio.holdings[j].symbol \in DOMAIN point \ {"TOTAL"}} |->
           Mul(point[portfolio.holdings[i].symbol],
               Div(portfolio.holdings[i].shares, denominator))])

ExampleData ==
  <<[VAS |-> Num(10), VGS |-> Num(50)], [VAS |-> Num(20), VGS |-> Num(25)]>>

ExampleShares == <<Num(1), Num(1), Num(0)>>

\* C3: with a positive denominator the weighted total at every index is the
\* sum over the non-CASH holdings that have a normalized value there of
\* value * (shares / denominator), CASH in neither; A = [10, 20] and
\* B = [50, 25] with one share each give [100, 125].
C3_WeightedTotal ==
  (view.screen = "charts" /\ Gt(Denominator(app.portfolio), Num(0))) =>
    /\ \A i \in DOMAIN view.normalizedChartData :
         view.normalizedChartData[i]["TOTAL"] =
           SpecTotal(view.normalizedChartData[i], app.portfolio,
                     Denominator(app.portfolio))
    /\ (view.chartData = ExampleData /\ SharesOf(app.portfolio) = ExampleShares)
         => TotalsOf(view.normalizedChartData) = <<Num(100), Num(125)>>

\* C3 witness: the example has been charted.
C3_Witness ==
  /\ view.screen = "charts"
  /\ view.chartData = ExampleData
  /\ SharesOf(app.portfolio) = ExampleShares
  /\ TotalsOf(view.normalizedChartData) = <<Num(100), Num(125)>>

\* C4: a column whose first price is zero gets no normalized value at any
\* index, and nothing infinite or not-a-number is in the output.
C4_ZeroBaseIsDegenerate ==
  view.screen = "charts" =>
    \A key \in Columns(view.chartData) :
      (/\ PresentAt(view.chartData, key) # {}
       /\ view.chartData[FirstPresent(view.chartData, key)][key] = Num(0)) =>
        \A i \in DOMAIN view.normalizedChartData :
          /\ key \notin DOMAIN view.normalizedChartData[i]
          /\ \A k \in DOMAIN view.normalizedChartData[i] :
               IsFinite(view.normalizedChartData[i][k])

\* The chart data without one column.
WithoutKey(data, key) ==
  [i \in DOMAIN data |-> [k \in DOMAIN data[i] \ {key} |-> data[i][k]]]

\* C5: a column with no price at any index has no normalized value at any
\* index, and the whole output (every other instrument and TOTAL) is what
\* it is without that column.
C5_AllAbsentOmitted ==
  view.screen = "charts" =>
    \A key \in Columns(view.chartData) :
      PresentAt(view.chartData, key) = {} =>
        /\ \A i \in DOMAIN view.normalizedChartData :
             key \notin DOMAIN view.normalizedChartData[i]
        /\ normalizeData(WithoutKey(view.chartData, key), app.portfolio).value
             = view.normalizedChartData

\* C5 witness: VAS is held and has no price at either index while VGS is
\* charted.
C5_Witness ==
  /\ view.screen = "charts"
  /\ Len(view.chartData) = 2
  /\ "VAS" \in Columns(view.chartData)
  /\ PresentAt(view.chartData, "VAS") = {}
  /\ app.portfolio.holdings[1].shares = Num(1)
  /\ app.portfolio.holdings[2].shares = Num(1)
  /\ "VGS" \in DOMAIN view.normalizedChartData[2]
  /\ view.normalizedChartData[2]["VGS"] = Num(200)
  /\ view.normalizedChartData[2]["TOTAL"] = Num(100)

\* ------------------------------------------------------------------------
\* Properties of the ledger and of the refresh cycle
\* ------------------------------------------------------------------------

HoldingSymbols(portfolio) ==
  {portfolio.holdings[i].symbol : i \in DOMAIN portfolio.holdings}

\* C6: an update naming an instrument that no holding has never completes
\* as an update that leaves every share count as it was, stamps lastUpdated
\* and goes on to persist.
C6_UnknownInstrumentRejected ==
  [][(/\ pm.mounted
      /\ ~pm.effectPending
      /\ lastCall'.called
      /\ lastCall'.symbol \notin HoldingSymbols(pm.portfolio))
       => ~(/\ SharesOf(pm'.portfolio) = SharesOf(pm.portfolio)
            /\ pm'.portfolio.lastUpdated = now'
            /\ pm'.effectPending)]_vars

\* The default portfolio as the specification describes it.
SpecDefaultHoldings ==
  <<Holding("VAS", Num(0)), Holding("VGS", Num(0)), Holding("CASH", Num(0))>>

\* What load() is to return for a stored item: the stored portfolio when
\* the item is one, the default portfolio otherwise.
IsSpecLoad(portfolio, saved) ==
  IF saved.k = "json" THEN portfolio = saved.v
  ELSE portfolio.holdings = SpecDefaultHoldings

\* C7: whenever a component initialises its portfolio from storage it gets
\* the stored portfolio, or the default one when nothing or something
\* malformed is stored; it never fails.
C7_LoadNeverFails ==
  [][/\ (app.status = "unmounted" /\ app'.status # "unmounted")
          => (app'.status = "mounted" /\ IsSpecLoad(app'.portfolio, storage))
     /\ (~pm.mounted /\ pm'.mounted)
          => IsSpecLoad(pm'.portfolio, storage)]_vars

NonNegative(x) == IsFinite(x) /\ x.n >= 0

\* max(0, shares) for a finite share count
SpecClamp(shares) == IF shares.n < 0 THEN Num(0) ELSE shares

\* C8: the holding named by an update holds max(0, shares) afterwards, and
\* no share count, in memory or stored, is ever negative.
C8_SharesClamped ==
  /\ pm.mounted =>
       \A i \in DOMAIN pm.portfolio.holdings :
         NonNegative(pm.portfolio.holdings[i].shares)
  /\ storage.k = "json" =>
       \A i \in DOMAIN storage.v.holdings :
         NonNegative(storage.v.holdings[i].shares)
  /\ (pm.mounted /\ lastCall.called) =>
       \A i \in DOMAIN pm.portfolio.holdings :
         pm.portfolio.holdings[i].symbol = lastCall.symbol =>
           pm.portfolio.holdings[i].shares = SpecClamp(lastCall.shares)

\* C8 witness: VAS held one share (still what is stored) and -5 was entered.
C8_Witness ==
  /\ pm.mounted
  /\ lastCall = Call("VAS", Num(-5))
  /\ storage.k = "json"
  /\ storage.v.holdings[1].shares = Num(1)
  /\ pm.portfolio.holdings[1].shares = Num(0)

NothingComputed ==
  /\ view.chartData = <<>>
  /\ view.normalizedChartData = <<>>
  /\ DOMAIN view.currentPrices = {}
  /\ ~pm.mounted
  /\ table = NoTable

\* C9: while a fetch is pending the loading screen is shown and nothing is
\* computed; once none is pending and one has failed the error screen is
\* shown and nothing is computed; chart data exists only when every fetch
\* has succeeded.
C9_JoinBeforeCompute ==
  /\ app.status = "mounted" =>
       /\ (\E i \in DOMAIN queries : queries[i].status = "loading")
            => (view.screen = "loading" /\ NothingComputed)
       /\ (/\ \A i \in DOMAIN queries : queries[i].status # "loading"
           /\ \E i \in DOMAIN queries : queries[i].status = "error")
            => (view.screen = "error" /\ NothingComputed)
  /\ (view.screen = "charts" \/ ~NothingComputed)
       => \A i \in DOMAIN queries : queries[i].status = "success"

\* C9 witness: the first fetch failed and the second one succeeded, in
\* either order; the error screen shows nothing of the series that arrived.
C9_Witness ==
  /\ app.status = "mounted"
  /\ queries[1].status = "error"
  /\ queries[2].status = "success"
  /\ Len(queries[2].data) = 1
  /\ queries[2].data[1] = Num(10)
  /\ view.screen = "error"
  /\ NothingComputed

\* ------------------------------------------------------------------------
\* Properties of the valuations (data runs, SpecData)
\* ------------------------------------------------------------------------

\* The price of the holding at position i: 1 for CASH, else the current
\* price of the i-th configured instrument, 0 when it has none.
SpecPrice(i, prices) ==
  IF i > Len(ETF_LIST) THEN Num(1)
  ELSE IF ETF_LIST[i] \in DOMAIN prices /\ prices[ETF_LIST[i]] # Null
    THEN prices[ETF_LIST[i]]
  ELSE Num(0)

SpecValues(portfolio, prices) ==
  [i \in DOMAIN portfolio.holdings |->
     Mul(portfolio.holdings[i].shares, SpecPrice(i, prices))]

\* The weight as the percentage the table shows.
SpecWeight(value, total) ==
  IF Gt(total, Num(0)) THEN Mul(Div(value, total), Num(100)) ELSE Num(0)

ValuationsAgree(rows, total, values, prices) ==
  /\ total = SumFn(values)
  /\ \A i \in DOMAIN rows :
       /\ rows[i].value = values[i]
       /\ rows[i].weight = SpecWeight(values[i], SumFn(values))
       /\ (i <= Len(ETF_LIST) /\ ETF_LIST[i] \notin DOMAIN prices)
            => (rows[i].value = Num(0) /\ rows[i].weight = Num(0))
  /\ Gt(SumFn(values), Num(0))
       => SumFn([i \in DOMAIN rows |-> rows[i].weight]) = Num(100)

\* C10: every row's value is shares * price (1 for CASH, 0 without a
\* price), totalValue is the sum of all values, every weight is
\* value / totalValue (shown as a percentage) or 0 when totalValue is 0; a
\* holding without a price has value 0 and weight 0 and the weights still
\* add up to the whole.
C10_Valuations ==
  pm.mounted =>
    ValuationsAgree(table.rows, table.totalValue,
                    SpecValues(pm.portfolio, view.currentPrices),
                    view.currentPrices)

\* C10 witness: one VAS share at 10, one VGS share without a price, 2 cash.
C10_Witness ==
  /\ pm.mounted
  /\ SharesOf(pm.portfolio) = <<Num(1), Num(1), Num(2)>>
  /\ DOMAIN view.currentPrices = {"VAS.AX"}
  /\ view.currentPrices["VAS.AX"] = Num(10)
  /\ table.totalValue = Num(12)
  /\ table.rows[2].value = Num(0)
  /\ table.rows[2].weight = Num(0)
  /\ table.rows[1].weight = Rat(250, 3)
  /\ table.rows[3].weight = Rat(50, 3)

\* ------------------------------------------------------------------------
\* Persistence of the ledger (SpecLive)
\* ------------------------------------------------------------------------

\* The stored item reads back as the portfolio PortfolioManager holds.
Persisted ==
  /\ pm.mounted
  /\ ~pm.effectPending
  /\ JSON_parse(storage) = Loaded(pm.portfolio)

\* C11: every change of the ledger portfolio is followed by a write of the
\* whole portfolio.  Whenever no persistence step is outstanding the stored
\* item equals the portfolio in memory (holdings and lastUpdated); a step
\* that changes the portfolio leaves a persistence step outstanding; the
\* step taken while one is outstanding is the write of exactly that
\* portfolio; and an outstanding persistence step is eventually taken.
C11_DurableWrite ==
  /\ []((pm.mounted /\ ~pm.effectPending) => Persisted)
  /\ [][/\ (pm'.mounted /\ pm'.portfolio # pm.portfolio) => pm'.effectPending
        /\ pm.effectPending =>
             /\ pm'.portfolio = pm.portfolio
             /\ JSON_parse(storage') = Loaded(pm.portfolio)
             /\ ~pm'.effectPending]_vars
  /\ (pm.effectPending ~> Persisted)

\* C11 witness: the session has changed a share count (the ledger differs
\* from what StockCharts loaded at its mount), the update was stamped at a
\* later clock reading, and the write that followed has run.
C11_Witness ==
  /\ Persisted
  /\ app.status = "mounted"
  /\ SharesOf(pm.portfolio) # SharesOf(app.portfolio)
  /\ pm.portfolio.lastUpdated = 1
  /\ storage.v.lastUpdated = 1

\* ------------------------------------------------------------------------
\* The portfolio behind the weighted total and behind the valuations (Spec)
\* ------------------------------------------------------------------------

\* C12: while the charts and the holdings table are shown, the portfolio
\* StockCharts hands to normalizeData has the holdings and shares of the
\* portfolio the holdings table is computed from, and the charted series
\* (TOTAL included) is normalizeData of the chart data and that portfolio.
C12_SamePortfolio ==
  (view.screen = "charts" /\ pm.mounted) =>
    /\ app.portfolio.holdings = pm.portfolio.holdings
    /\ table = PortfolioManagerRender(pm.portfolio, view.currentPrices)
    /\ view.normalizedChartData
         = normalizeData(view.chartData, pm.portfolio).value

====
